---- MODULE Spec2Model ----
(***************************************************************************)
(* Model of the Pico Light Orchestra firmware (src/src/main.py).           *)
(*                                                                         *)
(* The firmware is a set of asyncio tasks on one cooperative event loop:   *)
(* sensor_loop, button_monitor, one handle_request task per HTTP request,  *)
(* play_api_tone tasks, playback_recording tasks and async_calibrate       *)
(* tasks.  A task runs from one await to the next without interruption.    *)
(* The run queue is ordered by wake-up time, first-in first-out among      *)
(* equal times; time.sleep() blocks the whole loop, so it only moves the   *)
(* clock inside the step that calls it.                                    *)
(*                                                                         *)
(* Times are milliseconds (time.ticks_ms).  The calibration bounds are     *)
(* kept in tenths of an ADC count, so that the 10% margin is exact.        *)
(* The "norm" field of a melody event is not kept: nothing reads it.       *)
(***************************************************************************)
EXTENDS Integers, Sequences, FiniteSets, TLC

\* ------------------------------------------------------------- bounds
MaxAdv == 6          \* waits of the event loop before it only runs to rest
MaxEnv == 3          \* requests, button changes and light changes in a run
Horizon == 200000    \* the clock is followed up to this time (ms since boot)

\* ------------------------------------------------- program constants
MaxRecordMs == 30000
sensor_range == 100

NOTES == <<262, 294, 330, 349, 392, 440, 494, 523, 587, 659, 698, 784>>

LIVE == "Live Play"
RECORD == "Record & Play"

\* raw ADC readings the environment shows the sensor
RawLevels == {0, 20000, 60000}

\* the darkest and the brightest reading of a calibration run on request
CalibSamples == {<<0, 60000>>, <<60000, 60000>>}

\* the darkest and the brightest reading during the calibration at boot
BootDark == 0
BootBright == 60000

\* payloads of POST /post_mode: the "mode" value, or "bad" for a body that
\* is not JSON
ModeTokens == {"l", "L", "Live Play", "r", "R", "Record & Play", "x", "bad"}

\* payloads of POST /tone: freq, ms, duty in percent; ok = FALSE is a
\* body that does not parse
TonePayloads ==
    { [ok |-> TRUE, freq |-> 440, ms |-> 100, duty |-> 50],
      [ok |-> TRUE, freq |-> 880, ms |-> 60, duty |-> 50],
      [ok |-> TRUE, freq |-> 0, ms |-> 100, duty |-> 50],
      [ok |-> FALSE, freq |-> 0, ms |-> 0, duty |-> 0] }

VARIABLES
    now,                    \* time.ticks_ms()
    queue,                  \* the event loop's run queue
    current_mode, is_recording, is_playing_back,
    recorded_melody, recording_start_time,
    buzzer,                 \* buzzer_pin: [freq, duty]
    writer,                 \* who wrote buzzer_pin last
    last_note_index, last_freq,          \* locals of sensor_loop
    last_button1_state, last_button2_state,
    ambient_light_floor, ambient_light_ceiling, calibrated,
    last,                   \* the last step taken and its outcome
    button1_pin, button2_pin, light,     \* the inputs
    nenv,                   \* environment events so far
    nadv,                   \* waits of the event loop so far
    bench                   \* a caller outside the event loop: a direct call
                            \* of a function of main.py, or the conductor

progVars == <<now, queue, current_mode, is_recording, is_playing_back,
              recorded_melody, recording_start_time, buzzer, writer,
              last_note_index, last_freq, last_button1_state,
              last_button2_state, ambient_light_floor,
              ambient_light_ceiling, calibrated, last>>
envVars == <<button1_pin, button2_pin, light, nenv, nadv, bench>>
vars == <<progVars, envVars>>

\* ------------------------------------------------------------ helpers
\* nobody calls from outside the event loop
NoBench == [fn |-> "none", done |-> TRUE]

Min(a, b) == IF a < b THEN a ELSE b
Max(a, b) == IF a > b THEN a ELSE b
Abs(a) == IF a < 0 THEN -a ELSE a

\* The program state as one record, so that the synchronous functions of
\* main.py compose as functions from state to state.
Snap ==
    [now |-> now, queue |-> queue, current_mode |-> current_mode,
     is_recording |-> is_recording, is_playing_back |-> is_playing_back,
     recorded_melody |-> recorded_melody,
     recording_start_time |-> recording_start_time,
     buzzer |-> buzzer, writer |-> writer,
     last_note_index |-> last_note_index, last_freq |-> last_freq,
     last_button1_state |-> last_button1_state,
     last_button2_state |-> last_button2_state,
     ambient_light_floor |-> ambient_light_floor,
     ambient_light_ceiling |-> ambient_light_ceiling,
     calibrated |-> calibrated, last |-> last, ret |-> FALSE]

\* the state s0 becomes the next state (s0 is evaluated once)
Commit(s0) ==
  \E s \in {s0} :
    /\ now' = s.now
    /\ queue' = s.queue
    /\ current_mode' = s.current_mode
    /\ is_recording' = s.is_recording
    /\ is_playing_back' = s.is_playing_back
    /\ recorded_melody' = s.recorded_melody
    /\ recording_start_time' = s.recording_start_time
    /\ buzzer' = s.buzzer
    /\ writer' = s.writer
    /\ last_note_index' = s.last_note_index
    /\ last_freq' = s.last_freq
    /\ last_button1_state' = s.last_button1_state
    /\ last_button2_state' = s.last_button2_state
    /\ ambient_light_floor' = s.ambient_light_floor
    /\ ambient_light_ceiling' = s.ambient_light_ceiling
    /\ calibrated' = s.calibrated
    /\ last' = s.last

\* ------------------------------------------------------ the run queue
Task(kind, due) ==
    [kind |-> kind, due |-> due, pc |-> 0, arg |-> "", freq |-> 0,
     ms |-> 0, duty |-> 0, ok |-> TRUE, cancelled |-> FALSE,
     live |-> TRUE, mel |-> <<>>, idx |-> 0, last_time |-> 0, tok |-> ""]

\* asyncio keeps the run queue ordered by wake-up time; a task pushed with
\* a time already present goes behind the tasks that hold that time.
Insert(q, t) ==
    LET k == Cardinality({i \in 1..Len(q) : q[i].due <= t.due})
    IN SubSeq(q, 1, k) \o <<t>> \o SubSeq(q, k + 1, Len(q))

\* asyncio.create_task(coro): runnable now, behind what is runnable already
create_task(s, t) == [s EXCEPT !.queue = Insert(s.queue, [t EXCEPT !.due = s.now])]

\* await asyncio.sleep_ms(ms) by task t
sleep_ms(s, t, ms) ==
    [s EXCEPT !.queue = Insert(s.queue, [t EXCEPT !.due = s.now + Max(ms, 0)])]

\* time.sleep(): the event loop is blocked, only the clock moves
sleep(s, ms) == [s EXCEPT !.now = s.now + ms]

\* api_note_task and not api_note_task.done(): the task a /tone request
\* created last is still in the run queue.  A task that was replaced has
\* been cancelled and waits only for its CancelledError.
ApiPending(q) ==
    \E i \in 1..Len(q) : q[i].kind = "tone" /\ ~q[i].cancelled

\* ---------------------------------------------------------- the buzzer
buzzer_freq(s, f, who) ==
    [s EXCEPT !.buzzer = [@ EXCEPT !.freq = f], !.writer = who]

buzzer_duty(s, d, who) ==
    [s EXCEPT !.buzzer = [@ EXCEPT !.duty = d], !.writer = who]

stop_tone(s, who) == buzzer_duty(s, 0, who)

\* ------------------------------------------------------------ sensing
\* read_sensor_calibrated: the normalized value as the fraction
\* NormNum/NormDen, clamped to [0, 1]
NormDen(s) ==
    IF ~s.calibrated THEN 10 * (50000 - 1000)
    ELSE s.ambient_light_ceiling - s.ambient_light_floor

\* the normalized value without the clamp
NormNum_unclamped(s, raw) ==
    IF ~s.calibrated THEN 10 * (raw - 1000) ELSE 10 * raw - s.ambient_light_floor

NormNum(s, raw) ==
    LET n == IF ~s.calibrated THEN 10 * (raw - 1000)
             ELSE 10 * raw - s.ambient_light_floor
    IN Max(0, Min(NormDen(s), n))

\* norm > 0.05
AboveThreshold(s, raw) == 20 * NormNum(s, raw) > NormDen(s)

\* b ** e for an integer e >= 0; 0 ** 0 is 1, as 0.0 ** 0.0 is 1.0
RECURSIVE Pow(_, _)
Pow(b, e) == IF e = 0 THEN 1 ELSE b * Pow(b, e - 1)

\* int(a / b) for b # 0: the fraction cut toward zero
Trunc(a, b) ==
    LET n == IF b < 0 THEN -a ELSE a
        d == Abs(b)
    IN IF n >= 0 THEN n \div d ELSE -((-n) \div d)

\* light_to_note_index(norm_value, sensitivity) for norm_value = num / den
\* and sensitivity = range / 100, range a multiple of 100, so that the
\* exponent 2.0 - sensitivity is a whole number.  0.0 to a negative power
\* raises ZeroDivisionError.  Indices are 0-based as in the source.
light_to_note_index_at(num, den, range) ==
    LET e == 2 - range \div 100
    IN IF e < 0 /\ num = 0
       THEN [raised |-> TRUE, index |-> -1]
       ELSE LET an == IF e >= 0 THEN Pow(num, e) ELSE Pow(den, -e)
                ad == IF e >= 0 THEN Pow(den, e) ELSE Pow(num, -e)
            IN [raised |-> FALSE,
                index |-> Max(0, Min(Len(NOTES) - 1,
                                     Trunc(an * (Len(NOTES) - 1), ad)))]

\* light_to_note_index(norm) as sensor_loop calls it, at the default
\* sensitivity sensor_range / 100 = 1.0 (main.py never assigns sensor_range)
light_to_note_index(s, raw) ==
    light_to_note_index_at(NormNum(s, raw), NormDen(s), sensor_range).index

NoteFreq(idx) == NOTES[idx + 1]

\* ---------------------------------------------------------- recording
\* A playback task that is iterating recorded_melody holds the list object
\* itself: when start_recording rebinds the global to a new list, the task
\* keeps iterating the old one.
Detach(q, mel) ==
    [i \in 1..Len(q) |->
        IF q[i].kind = "play" /\ q[i].pc = 3 /\ q[i].live
        THEN [q[i] EXCEPT !.live = FALSE, !.mel = mel]
        ELSE q[i]]

\* start_recording without the test of the mode
start_recording_any_mode(s) ==
    LET s1 == [s EXCEPT !.queue = Detach(s.queue, s.recorded_melody),
                        !.recorded_melody = <<>>,
                        !.recording_start_time = s.now,
                        !.is_recording = TRUE]
        s2 == buzzer_duty(buzzer_freq(s1, 800, "cue"), 0, "cue")
    IN [sleep(s2, 400) EXCEPT !.ret = TRUE]

\* start_recording without the reset of the melody
start_recording_keeps_melody(s) ==
    IF s.current_mode # RECORD THEN [s EXCEPT !.ret = FALSE]
    ELSE LET s1 == [s EXCEPT !.recording_start_time = s.now,
                             !.is_recording = TRUE]
             s2 == buzzer_duty(buzzer_freq(s1, 800, "cue"), 0, "cue")
         IN [sleep(s2, 400) EXCEPT !.ret = TRUE]

start_recording(s) ==
    IF s.current_mode # RECORD THEN [s EXCEPT !.ret = FALSE]
    ELSE LET s1 == [s EXCEPT !.queue = Detach(s.queue, s.recorded_melody),
                             !.recorded_melody = <<>>,
                             !.recording_start_time = s.now,
                             !.is_recording = TRUE]
             \* two beeps: freq 800, duty 20000 for 100 ms, duty 0 for 100 ms
             s2 == buzzer_duty(buzzer_freq(s1, 800, "cue"), 0, "cue")
         IN [sleep(s2, 400) EXCEPT !.ret = TRUE]

stop_recording(s) ==
    IF ~s.is_recording THEN [s EXCEPT !.ret = FALSE]
    ELSE LET s1 == [s EXCEPT !.is_recording = FALSE]
             \* one beep: freq 400, duty 20000 for 200 ms, then duty 0
             s2 == buzzer_duty(buzzer_freq(s1, 400, "cue"), 0, "cue")
         IN [sleep(s2, 200) EXCEPT !.ret = TRUE]

\* ----------------------------------------------------------- playback
\* The for loop of playback_recording from event t.idx on, up to the next
\* await (or the end).  resumed: the task comes back from the sleep that
\* precedes event t.idx.
\* a playback that never gives the buzzer back
playback_done_keeps_flag(s) ==
    [stop_tone(s, "play") EXCEPT
        !.last = [op |-> "play", status |-> "complete", aux |-> ""]]

\* the end of playback_recording (lines 216-219)
playback_done(s) ==
    [stop_tone(s, "play") EXCEPT
        !.is_playing_back = FALSE,
        !.last = [op |-> "play", status |-> "complete", aux |-> ""]]

\* a wait measured from the start of the melody
time_diff_from_start(e, last_time) == e.time

\* the wait before event e (line 203)
time_diff(e, last_time) == e.time - last_time

RECURSIVE PlayLoop(_, _, _)
PlayLoop(s, t, resumed) ==
    LET L == IF t.live THEN s.recorded_melody ELSE t.mel
    IN IF t.idx > Len(L)
       THEN playback_done(s)
       ELSE LET e == L[t.idx]
                d == time_diff(e, t.last_time)
            IN IF ~resumed /\ d > 0
               THEN sleep_ms([s EXCEPT !.last = [op |-> "play", status |-> "wait", aux |-> ""]],
                             [t EXCEPT !.pc = 3, !.ms = d], d)
               ELSE LET s1 == IF e.freq > 0
                              THEN buzzer_duty(buzzer_freq(s, e.freq, "play"), e.duty, "play")
                              ELSE buzzer_duty(s, 0, "play")
                    IN PlayLoop(s1, [t EXCEPT !.idx = @ + 1, !.last_time = e.time], FALSE)

\* a playback that starts whatever the melody holds
nothing_to_play_never(s) == FALSE

\* the test "if not recorded_melody" (line 185)
nothing_to_play(s) == s.recorded_melody = <<>>

\* one step of a playback_recording task, from one await to the next
playback_recording(s, t) ==
    CASE t.pc = 0 ->
           IF nothing_to_play(s)
           THEN [s EXCEPT !.last = [op |-> "play", status |-> "nothing", aux |-> ""]]
           ELSE LET s1 == [s EXCEPT !.is_playing_back = TRUE,
                                    !.last = [op |-> "play", status |-> "start", aux |-> ""]]
                    s2 == buzzer_duty(buzzer_freq(s1, 600, "play"), 20000, "play")
                IN sleep_ms(s2, [t EXCEPT !.pc = 1], 100)
      [] t.pc = 1 ->
           sleep_ms(buzzer_duty([s EXCEPT !.last = [op |-> "play", status |-> "cue", aux |-> ""]],
                                0, "play"),
                    [t EXCEPT !.pc = 2], 200)
      [] t.pc = 2 ->
           PlayLoop(s, [t EXCEPT !.live = TRUE, !.idx = 1, !.last_time = 0], FALSE)
      [] OTHER ->
           PlayLoop(s, t, TRUE)

\* ----------------------------------------------------------- API tone
\* one step of a play_api_tone task.  A CancelledError delivered before the
\* coroutine first ran ends it without running any of its code; delivered
\* at the sleep it runs the except branch, which is stop_tone() as well.
play_api_tone(s, t) ==
    IF t.pc = 0
    THEN IF t.cancelled THEN s
         ELSE IF t.freq > 0
              THEN LET s1 == buzzer_duty(buzzer_freq(s, t.freq, "api"),
                                         (t.duty * 65535) \div 100, "api")
                   IN sleep_ms([s1 EXCEPT !.last = [op |-> "api", status |-> "start", aux |-> ""]],
                               [t EXCEPT !.pc = 1], t.ms)
              ELSE [s EXCEPT !.last = [op |-> "api", status |-> "none", aux |-> ""]]
    ELSE [stop_tone(s, "api") EXCEPT
             !.last = [op |-> "api",
                       status |-> IF t.cancelled THEN "cancelled" ELSE "expired",
                       aux |-> ""]]

\* Task.cancel() on the pending API tone task: it is marked, and if it
\* sleeps it is rescheduled to run now
cancel(s) ==
    LET q == s.queue
        i == CHOOSE i \in 1..Len(q) : q[i].kind = "tone" /\ ~q[i].cancelled
        t == [q[i] EXCEPT !.cancelled = TRUE]
        rest == SubSeq(q, 1, i - 1) \o SubSeq(q, i + 1, Len(q))
    IN IF q[i].due > s.now
       THEN [s EXCEPT !.queue = Insert(rest, [t EXCEPT !.due = s.now])]
       ELSE [s EXCEPT !.queue = [q EXCEPT ![i] = t]]

\* -------------------------------------------------------- calibration
\* calibrate_sensor(3000) with the darkest and the brightest sample lo, hi.
\* start_time is taken before the three beeps (900 ms), sampling lasts
\* until 3000 ms after start_time, the success beep takes 200 ms.
\* the bounds without the rule of the minimum range
calibration_bounds_no_minimum(lo, hi) ==
    LET margin == hi - lo
    IN [floor |-> Max(0, 10 * lo - margin),
        ceiling |-> Min(10 * 65535, 10 * hi + margin)]

\* the floor and the ceiling, in tenths, that calibrate_sensor derives from
\* the darkest and the brightest sample lo, hi (lines 72-85)
calibration_bounds(lo, hi) ==
    LET margin == hi - lo                     \* in tenths: (hi - lo) * 0.1
        floor == Max(0, 10 * lo - margin)
        ceil0 == Min(10 * 65535, 10 * hi + margin)
    IN [floor |-> floor,
        ceiling |-> IF ceil0 - floor < 10 * 1000 THEN floor + 10 * 1000 ELSE ceil0]

calibrate_sensor(s, lo, hi) ==
    LET b == calibration_bounds(lo, hi)
        s1 == [s EXCEPT !.ambient_light_floor = b.floor,
                        !.ambient_light_ceiling = b.ceiling,
                        !.calibrated = TRUE,
                        !.last = [op |-> "calibrate", status |-> "done", aux |-> ""]]
    IN sleep(buzzer_duty(buzzer_freq(s1, 523, "calib"), 0, "calib"), 3200)

\* -------------------------------------------------------- sensor_loop
\* a sensor loop that lets a recording run on
auto_stop_never(s, current_time) == s

\* the end of a recording iteration: the automatic stop (lines 524-525)
auto_stop(s, current_time) ==
    IF current_time > MaxRecordMs THEN stop_recording(s) ELSE s

\* a recording that takes every reading for a new note
note_changed_always(freq, prev) == TRUE

\* "only record if note changed significantly" (line 500)
note_changed(freq, prev) == Abs(freq - prev) > 10

\* one iteration of sensor_loop by task t, with raw the ADC reading
\* the body of an iteration that is not suspended (lines 473-527)
sensor_tick(s, t, raw) ==
    LET mark(st) == [op |-> "sensor", status |-> st, aux |-> ""]
    IN IF s.current_mode = LIVE
       THEN LET note_index == light_to_note_index(s, raw)
                s1 == IF AboveThreshold(s, raw)
                      THEN IF note_index # s.last_note_index
                           THEN [buzzer_duty(buzzer_freq(s, NoteFreq(note_index), "live"),
                                             32768, "live")
                                   EXCEPT !.last_note_index = note_index]
                           ELSE s
                      ELSE [stop_tone(s, "live") EXCEPT !.last_note_index = -1]
            IN sleep_ms([s1 EXCEPT !.last = mark("live")], t, 25)
       ELSE IF s.current_mode = RECORD /\ s.is_recording
       THEN LET current_time == s.now - s.recording_start_time
                note_index == light_to_note_index(s, raw)
                freq == NoteFreq(note_index)
                s1 == IF AboveThreshold(s, raw)
                      THEN IF note_changed(freq, s.last_freq)
                           THEN LET a == [s EXCEPT !.recorded_melody =
                                            Append(@, [time |-> current_time,
                                                       freq |-> freq, duty |-> 32768])]
                                IN [buzzer_duty(buzzer_freq(a, freq, "rec"), 32768, "rec")
                                      EXCEPT !.last_freq = freq]
                           ELSE s
                      ELSE LET a == IF s.last_freq > 0
                                    THEN [s EXCEPT !.recorded_melody =
                                            Append(@, [time |-> current_time,
                                                       freq |-> 0, duty |-> 0])]
                                    ELSE s
                           IN [stop_tone(a, "rec") EXCEPT !.last_freq = 0]
                s2 == auto_stop(s1, current_time)
            IN sleep_ms([s2 EXCEPT !.last = mark("record")], t, 25)
       ELSE sleep_ms([s EXCEPT !.last = mark("idle")], t, 25)

\* sensor_loop without the test of line 469
sensor_loop_never_skips(s, t, raw) == sensor_tick(s, t, raw)

sensor_loop(s, t, raw) ==
    IF ApiPending(s.queue) \/ s.is_playing_back
    THEN sleep_ms([s EXCEPT !.last = [op |-> "sensor", status |-> "skip", aux |-> ""]],
                  t, 50)
    ELSE sensor_tick(s, t, raw)

\* a playback accepted in any substate
may_play_always(s) == TRUE

\* the test before a playback is started (lines 241 and 351)
may_play(s) == ~s.is_recording /\ ~s.is_playing_back

\* ----------------------------------------------------- button_monitor
\* one iteration of button_monitor by task t, with the two pin values
\* a Button A that starts a recording whatever the substate is
button_a_always_starts(s) == start_recording(s)

\* the command of Button A (lines 230-233)
button_a(s) == IF s.is_recording THEN stop_recording(s) ELSE start_recording(s)

button_monitor(s, t, b1, b2) ==
    IF s.current_mode = RECORD
    THEN LET pressed1 == b1 = 0 /\ s.last_button1_state = 1
             s1 == IF pressed1 THEN button_a(s) ELSE s
             s2 == [s1 EXCEPT !.last_button1_state = b1]
             pressed2 == b2 = 0 /\ s2.last_button2_state = 1
             starts == pressed2 /\ may_play(s2)
             s3 == IF starts THEN create_task(s2, Task("play", s2.now)) ELSE s2
             s4 == [s3 EXCEPT !.last_button2_state = b2,
                              !.last = [op |-> "button",
                                        status |-> IF ~pressed1 THEN "none"
                                                   ELSE IF s.is_recording THEN "a_stop"
                                                   ELSE "a_start",
                                        aux |-> IF ~pressed2 THEN "none"
                                                ELSE IF starts THEN "b_play"
                                                ELSE "b_ignored"]]
         IN sleep_ms(s4, t, 50)
    ELSE sleep_ms([s EXCEPT !.last = [op |-> "button", status |-> "off", aux |-> ""]], t, 50)

\* ----------------------------------------------------- handle_request
\* a set-mode that leaves a running recording alone
set_mode_keeps_recording(s, tok) ==
    IF tok \in {"l", "L", "Live Play"} THEN [s EXCEPT !.current_mode = LIVE, !.ret = FALSE]
    ELSE IF tok \in {"r", "R", "Record & Play"} THEN [s EXCEPT !.current_mode = RECORD, !.ret = FALSE]
    ELSE [s EXCEPT !.ret = FALSE]

\* the mode switch of POST /post_mode for the token tok (lines 322-326);
\* ret tells whether a recording was stopped
set_mode(s, tok) ==
    IF tok \in {"l", "L", "Live Play"} THEN stop_recording([s EXCEPT !.current_mode = LIVE])
    ELSE IF tok \in {"r", "R", "Record & Play"} THEN [s EXCEPT !.current_mode = RECORD, !.ret = FALSE]
    ELSE [s EXCEPT !.ret = FALSE]

\* a /tone handler that cancels the pending tone before it reads the payload
post_tone_cancels_first(s, t) ==
    LET s1 == IF ApiPending(s.queue) THEN cancel(s) ELSE s
        tone == [Task("tone", s.now) EXCEPT
                    !.freq = t.freq, !.ms = t.ms, !.duty = t.duty,
                    !.arg = IF ApiPending(s.queue) THEN "supersedes" ELSE "first"]
    IN IF ~t.ok THEN [s1 EXCEPT !.last = [op |-> t.arg, status |-> "400", aux |-> ""]]
       ELSE [create_task(s1, tone) EXCEPT !.last = [op |-> t.arg, status |-> "ok", aux |-> ""]]

\* POST /tone (lines 368-385): the payload is read first; a payload that
\* cannot be read is answered 400 before anything else is touched
post_tone(s, t) ==
    IF ~t.ok THEN [s EXCEPT !.last = [op |-> t.arg, status |-> "400", aux |-> ""]]
    ELSE LET s1 == IF ApiPending(s.queue) THEN cancel(s) ELSE s
             \* arg notes whether the request replaced a pending tone
             tone == [Task("tone", s.now) EXCEPT
                         !.freq = t.freq, !.ms = t.ms, !.duty = t.duty,
                         !.arg = IF ApiPending(s.queue) THEN "supersedes"
                                 ELSE "first"]
         IN [create_task(s1, tone) EXCEPT !.last = [op |-> t.arg, status |-> "ok", aux |-> ""]]

\* the routing of handle_request for the request held by task t; the
\* status is the "status" of the JSON answer, or the HTTP code of an error
handle_request(s, t) ==
    LET answer(st, status) == [st EXCEPT !.last = [op |-> t.arg, status |-> status, aux |-> ""]]
    IN CASE t.arg = "/calibrate" ->
              answer(create_task(s, Task("calib", s.now)), "calibrating")
         [] t.arg = "/post_mode" ->
              IF t.tok = "bad" THEN answer(s, "400")
              ELSE LET s1 == set_mode(s, t.tok)
                   IN [s1 EXCEPT !.last = [op |-> t.arg, status |-> "ok",
                                           aux |-> IF s1.ret THEN "stopped" ELSE ""]]
         [] t.arg = "/record/start" ->
              LET s1 == start_recording(s)
              IN answer(s1, IF s1.ret THEN "ok" ELSE "error")
         [] t.arg = "/record/stop" ->
              LET s1 == stop_recording(s)
              IN answer(s1, IF s1.ret THEN "ok" ELSE "error")
         [] t.arg = "/record/play" ->
              IF may_play(s)
              THEN answer(create_task(s, Task("play", s.now)), "playing")
              ELSE answer(s, "busy")
         [] t.arg = "/tone" -> post_tone(s, t)
         [] OTHER -> answer(s, "404")

\* --------------------------------------------------------- the system
\* main(): calibrate_sensor() has run, then sensor_loop and button_monitor
\* are gathered, in this order
Init ==
    /\ now = 0
    /\ queue = <<Task("sensor", 0), Task("button", 0)>>
    /\ current_mode = LIVE
    /\ is_recording = FALSE
    /\ is_playing_back = FALSE
    /\ recorded_melody = <<>>
    /\ recording_start_time = 0
    /\ buzzer = [freq |-> 523, duty |-> 0]
    /\ writer = "calib"
    /\ last_note_index = -1
    /\ last_freq = 0
    /\ last_button1_state = 1
    /\ last_button2_state = 1
    /\ LET c == calibrate_sensor([ambient_light_floor |-> 10 * 30000,
                                  ambient_light_ceiling |-> 10 * 40000,
                                  calibrated |-> FALSE, last |-> <<>>,
                                  buzzer |-> [freq |-> 0, duty |-> 0],
                                  writer |-> "", now |-> 0], BootDark, BootBright)
       IN /\ ambient_light_floor = c.ambient_light_floor
          /\ ambient_light_ceiling = c.ambient_light_ceiling
    /\ calibrated = TRUE
    /\ last = [op |-> "boot", status |-> "ok", aux |-> ""]
    /\ button1_pin = 1
    /\ button2_pin = 1
    /\ light \in RawLevels
    /\ nenv = 0
    /\ nadv = 0
    /\ bench = NoBench

Ready(kind) == queue # <<>> /\ Head(queue).due <= now /\ Head(queue).kind = kind

\* the state with the head of the run queue taken off to run
Popped == [Snap EXCEPT !.queue = Tail(queue)]

SensorStep ==
    /\ Ready("sensor")
    /\ Commit(sensor_loop(Popped, Head(queue), light))
    /\ UNCHANGED envVars

ButtonStep ==
    /\ Ready("button")
    /\ Commit(button_monitor(Popped, Head(queue), button1_pin, button2_pin))
    /\ UNCHANGED envVars

RequestStep ==
    /\ Ready("req")
    /\ Commit(handle_request(Popped, Head(queue)))
    /\ UNCHANGED envVars

ToneStep ==
    /\ Ready("tone")
    /\ Commit(play_api_tone(Popped, Head(queue)))
    /\ UNCHANGED envVars

PlaybackStep ==
    /\ Ready("play")
    /\ Commit(playback_recording(Popped, Head(queue)))
    /\ UNCHANGED envVars

\* async_calibrate: calibrate_sensor() runs to its end inside one step
CalibrateStep ==
    /\ Ready("calib")
    /\ \E c \in CalibSamples : Commit(calibrate_sensor(Popped, c[1], c[2]))
    /\ UNCHANGED envVars

\* a task other than the two pollers is in the run queue
Pending(q) == \E i \in 1..Len(q) : q[i].kind \notin {"sensor", "button"}

Busy == Pending(queue) \/ is_recording

\* The pollers alone, run up to time T with the inputs held: what the loop
\* does when nothing else is scheduled and nothing arrives.  Each step is
\* evaluated once, before the steps that follow it.
RECURSIVE RunPollers(_, _, _, _, _)
RunPollers(s, T, raw, b1, b2) ==
    LET h == Head(s.queue)
        s0 == [s EXCEPT !.now = Max(s.now, h.due), !.queue = Tail(s.queue)]
        s1 == IF h.kind = "sensor" THEN sensor_loop(s0, h, raw)
              ELSE button_monitor(s0, h, b1, b2)
    IN IF h.due > T THEN [s EXCEPT !.now = T]
       ELSE CHOOSE r \in {RunPollers(x, T, raw, b1, b2) : x \in {s1}} : TRUE

Shift(s, d) ==
    [s EXCEPT !.now = @ + d,
              !.queue = [i \in 1..Len(@) |-> [@[i] EXCEPT !.due = @ + d]]]

\* 50 ms of polling change nothing but the times: the recording is steady
Steady ==
    /\ ~Pending(queue)
    /\ Head(queue).due > now
    /\ RunPollers(Snap, now + 50, light, button1_pin, button2_pin) = Shift(Snap, 50)

\* the number of steady 50 ms periods that end within the recording limit;
\* for a recording that is steady past its limit, within the horizon
SteadyPeriods ==
    IF now < recording_start_time + MaxRecordMs
    THEN (recording_start_time + MaxRecordMs - now) \div 50
    ELSE (Horizon - now) \div 50

CanLeap == nadv >= MaxAdv /\ is_recording /\ Steady /\ SteadyPeriods >= 1

\* no task is runnable: the loop waits for the next wake-up time.  After
\* MaxAdv waits the clock moves only while something is still going on.
AdvanceTime ==
    /\ queue # <<>>
    /\ Head(queue).due > now
    /\ Head(queue).due <= Horizon
    /\ nadv < MaxAdv \/ (Busy /\ ~CanLeap)
    /\ now' = Head(queue).due
    /\ nadv' = Min(nadv + 1, MaxAdv)
    /\ UNCHANGED <<queue, current_mode, is_recording, is_playing_back,
                   recorded_melody, recording_start_time, buzzer, writer,
                   last_note_index, last_freq, last_button1_state,
                   last_button2_state, ambient_light_floor,
                   ambient_light_ceiling, calibrated, last,
                   button1_pin, button2_pin, light, nenv, bench>>

\* a steady recording: the polling periods up to the recording limit pass
\* in one step
Leap ==
    /\ CanLeap
    /\ Commit(Shift(Snap, 50 * SteadyPeriods))
    /\ UNCHANGED envVars

\* the requests a client sends
Requests ==
    {[Task("req", 0) EXCEPT !.arg = a] :
        a \in {"/calibrate", "/record/start", "/record/stop", "/record/play"}}
    \cup {[Task("req", 0) EXCEPT !.arg = "/post_mode", !.tok = k] : k \in ModeTokens}
    \cup {[Task("req", 0) EXCEPT !.arg = "/tone", !.ok = p.ok, !.freq = p.freq,
                                 !.ms = p.ms, !.duty = p.duty] : p \in TonePayloads}

\* a request has been read: its handler is runnable
Arrive ==
    /\ nenv < MaxEnv
    /\ \E r \in Requests : queue' = Insert(queue, [r EXCEPT !.due = now])
    /\ nenv' = nenv + 1
    /\ UNCHANGED <<now, current_mode, is_recording, is_playing_back,
                   recorded_melody, recording_start_time, buzzer, writer,
                   last_note_index, last_freq, last_button1_state,
                   last_button2_state, ambient_light_floor,
                   ambient_light_ceiling, calibrated, last,
                   button1_pin, button2_pin, light, nadv, bench>>

Button1 ==
    /\ nenv < MaxEnv
    /\ button1_pin' = 1 - button1_pin
    /\ nenv' = nenv + 1
    /\ UNCHANGED <<progVars, button2_pin, light, nadv, bench>>

Button2 ==
    /\ nenv < MaxEnv
    /\ button2_pin' = 1 - button2_pin
    /\ nenv' = nenv + 1
    /\ UNCHANGED <<progVars, button1_pin, light, nadv, bench>>

LightChange ==
    /\ nenv < MaxEnv
    /\ \E l \in RawLevels \ {light} : light' = l
    /\ nenv' = nenv + 1
    /\ UNCHANGED <<progVars, button1_pin, button2_pin, nadv, bench>>

Next ==
    \/ SensorStep
    \/ ButtonStep
    \/ RequestStep
    \/ ToneStep
    \/ PlaybackStep
    \/ CalibrateStep
    \/ AdvanceTime
    \/ Leap
    \/ Arrive
    \/ Button1
    \/ Button2
    \/ LightChange

Spec == Init /\ [][Next]_vars

\* A state the firmware is in after one recording: from Init with light
\* 20000, POST /post_mode "r" and POST /record/start at time 0, the light
\* going to 0 at 450 ms and to 60000 at 475 ms, POST /record/stop at 475 ms.
InitRecorded ==
    /\ now = 675
    /\ queue = <<Task("sensor", 700), Task("button", 725)>>
    /\ current_mode = RECORD
    /\ is_recording = FALSE
    /\ is_playing_back = FALSE
    /\ recorded_melody = <<[time |-> 400, freq |-> 349, duty |-> 32768],
                           [time |-> 450, freq |-> 0, duty |-> 0],
                           [time |-> 475, freq |-> 698, duty |-> 32768]>>
    /\ recording_start_time = 0
    /\ buzzer = [freq |-> 400, duty |-> 0]
    /\ writer = "cue"
    /\ last_note_index = 3
    /\ last_freq = 698
    /\ last_button1_state = 1
    /\ last_button2_state = 1
    /\ ambient_light_floor = 0
    /\ ambient_light_ceiling = 655350
    /\ calibrated = TRUE
    /\ last = [op |-> "sensor", status |-> "idle", aux |-> ""]
    /\ button1_pin = 1
    /\ button2_pin = 1
    /\ light = 60000
    /\ nenv = 0
    /\ nadv = 0
    /\ bench = NoBench

\* the system from a recorded melody on
SpecPlay == InitRecorded /\ [][Next]_vars

\* The event loop never stops: it runs the task at the head of the run
\* queue or waits for its wake-up time.  Requests, button presses and light
\* changes may or may not come.
Run ==
    \/ SensorStep
    \/ ButtonStep
    \/ RequestStep
    \/ ToneStep
    \/ PlaybackStep
    \/ CalibrateStep
    \/ AdvanceTime
    \/ Leap

\* A state the firmware is in with a recording started during a playback:
\* from InitRecorded, POST /record/play and, while the playback sounds its
\* cue, POST /record/start.
InitOverlap ==
    /\ now = 1075
    /\ queue = <<Task("sensor", 700), Task("button", 725),
                 [Task("play", 775) EXCEPT !.pc = 1]>>
    /\ current_mode = RECORD
    /\ is_recording = TRUE
    /\ is_playing_back = TRUE
    /\ recorded_melody = <<>>
    /\ recording_start_time = 675
    /\ buzzer = [freq |-> 800, duty |-> 0]
    /\ writer = "cue"
    /\ last_note_index = 3
    /\ last_freq = 698
    /\ last_button1_state = 1
    /\ last_button2_state = 1
    /\ ambient_light_floor = 0
    /\ ambient_light_ceiling = 655350
    /\ calibrated = TRUE
    /\ last = [op |-> "/record/start", status |-> "ok", aux |-> ""]
    /\ button1_pin = 1
    /\ button2_pin = 1
    /\ light = 60000
    /\ nenv = 2
    /\ nadv = 0
    /\ bench = NoBench

\* the system from a recording in progress on, the event loop running
FairSpec == InitOverlap /\ [][Next]_vars /\ WF_vars(Run)

\* A state the firmware is in with a playback of the recorded melody under
\* way: from InitRecorded, POST /post_mode for the mode already set and
\* POST /record/play have been answered and the playback task sounds its
\* start cue.
InitPlaying ==
    /\ now = 675
    /\ queue = <<Task("sensor", 700), Task("button", 725),
                 [Task("play", 775) EXCEPT !.pc = 1]>>
    /\ current_mode = RECORD
    /\ is_recording = FALSE
    /\ is_playing_back = TRUE
    /\ recorded_melody = <<[time |-> 400, freq |-> 349, duty |-> 32768],
                           [time |-> 450, freq |-> 0, duty |-> 0],
                           [time |-> 475, freq |-> 698, duty |-> 32768]>>
    /\ recording_start_time = 0
    /\ buzzer = [freq |-> 600, duty |-> 20000]
    /\ writer = "play"
    /\ last_note_index = 3
    /\ last_freq = 698
    /\ last_button1_state = 1
    /\ last_button2_state = 1
    /\ ambient_light_floor = 0
    /\ ambient_light_ceiling = 655350
    /\ calibrated = TRUE
    /\ last = [op |-> "play", status |-> "start", aux |-> ""]
    /\ button1_pin = 1
    /\ button2_pin = 1
    /\ light = 60000
    /\ nenv = 2
    /\ nadv = 0
    /\ bench = NoBench

\* the system from a playback in progress on, the event loop running
FairPlay == InitPlaying /\ [][Next]_vars /\ WF_vars(Run)

\* ========================================================== the bench
\* The functions of main.py and of conductor.py called one at a time from
\* outside the event loop, as the tests of src/tests do: the module has been
\* imported, main() has not run.

\* ------------------------------------------------------ bench bounds
\* ADC readings shown to the sensor on the bench
BenchLevels == {0, 500, 30000, 65000, 65535}

\* normalized values n / NormGrid passed to light_to_note_index
NormGrid == 4

\* values of sensor_range passed on as sensitivity = sensor_range / 100
BenchRanges == {0, 100, 200, 300, 1000}

\* ranges asked for by a set-range request
RangeRequests == {-1, 0, 250, 1000, 1001}

\* the longest melody queried on the bench
MaxMelodyLen == 102

\* PICO_IPS as a student has filled it in
PICO_IPS == <<"192.168.1.101", "192.168.1.102", "192.168.1.103">>

\* how a requests.post() of the conductor ends
PostOutcomes == {"ok", "timeout", "error"}

\* ---------------------------------------------- calibrate_sensor, stepwise
\* the default duration_ms of calibrate_sensor
CalibDurationMs == 3000

\* buzzer_pin.freq(f) on the record b of the buzzer, the clock and the
\* number of times the buzzer has been switched on
pwm_freq(b, f) == [b EXCEPT !.buzzer = [@ EXCEPT !.freq = f]]

\* buzzer_pin.duty_u16(d): a duty above 0 on a silent buzzer switches it on
pwm_duty_u16(b, d) ==
    [b EXCEPT !.buzzer = [@ EXCEPT !.duty = d],
              !.on = IF d > 0 /\ b.buzzer.duty = 0 THEN @ + 1 ELSE @]

\* time.sleep(ms / 1000)
time_sleep(b, ms) == [b EXCEPT !.now = @ + ms]

\* a cue that only waits
calibrate_cue_silent(b) == time_sleep(time_sleep(b, 100), 200)

\* one round of the cue loop of calibrate_sensor (lines 60-64)
calibrate_cue(b) ==
    time_sleep(pwm_duty_u16(time_sleep(pwm_duty_u16(pwm_freq(b, 1000), 10000), 100), 0), 200)

\* the success beep of calibrate_sensor (lines 88-91)
calibrate_success(b) ==
    pwm_duty_u16(time_sleep(pwm_duty_u16(pwm_freq(b, 523), 20000), 200), 0)

\* the buzzer, the clock and the activations so far, as one record
Pwm == [buzzer |-> buzzer, now |-> now, on |-> bench.on]

\* what a bench step leaves alone
benchRest == <<queue, current_mode, is_recording, is_playing_back,
               recorded_melody, recording_start_time, last_note_index,
               last_freq, last_button1_state, last_button2_state, last,
               button1_pin, button2_pin, nenv, nadv>>
calibVars == <<ambient_light_floor, ambient_light_ceiling, calibrated>>

\* no call is under way and the last one, if any, was a calibration
BenchIdle == bench.done /\ bench.fn \in {"none", "calibrate_sensor"}

\* calibrate_sensor() is called (lines 45-56): start_time is taken
BenchCalibrate ==
    /\ BenchIdle /\ ~calibrated
    /\ bench' = [fn |-> "calibrate_sensor", done |-> FALSE, pc |-> "cue", i |-> 0,
                 start_time |-> now, n |-> 0, lo |-> 65536, hi |-> -1, on |-> 0]
    /\ UNCHANGED <<benchRest, calibVars, buzzer, writer, now, light>>

\* one round of the loop "for i in range(3)"
CalibCue ==
    /\ bench.fn = "calibrate_sensor" /\ bench.pc = "cue"
    /\ \E b \in {calibrate_cue(Pwm)} :
          /\ buzzer' = b.buzzer
          /\ now' = b.now
          /\ bench' = [bench EXCEPT !.on = b.on, !.i = @ + 1,
                                    !.pc = IF bench.i + 1 = 3 THEN "sample" ELSE "cue"]
    /\ writer' = "calib"
    /\ UNCHANGED <<benchRest, calibVars, light>>

\* one round of the sampling loop (lines 67-69)
CalibSample ==
    /\ bench.fn = "calibrate_sensor" /\ bench.pc = "sample"
    /\ now - bench.start_time < CalibDurationMs
    /\ bench' = [bench EXCEPT !.n = @ + 1, !.lo = Min(@, light), !.hi = Max(@, light)]
    /\ now' = now + 10
    /\ UNCHANGED <<benchRest, calibVars, buzzer, writer, light>>

\* the sampling loop has ended: the bounds, the flag and the success beep
\* (lines 72-98)
CalibFinish ==
    /\ bench.fn = "calibrate_sensor" /\ bench.pc = "sample"
    /\ ~(now - bench.start_time < CalibDurationMs)
    /\ bench.n > 0
    /\ \E c \in {calibration_bounds(bench.lo, bench.hi)} :
          /\ ambient_light_floor' = c.floor
          /\ ambient_light_ceiling' = c.ceiling
    /\ calibrated' = TRUE
    /\ \E b \in {calibrate_success(Pwm)} :
          /\ buzzer' = b.buzzer
          /\ now' = b.now
          /\ bench' = [bench EXCEPT !.on = b.on, !.pc = "done", !.done = TRUE]
    /\ writer' = "calib"
    /\ UNCHANGED <<benchRest, light>>

\* the hand over the sensor moves while the samples are taken
BenchLight ==
    /\ bench.fn = "calibrate_sensor" /\ bench.pc = "sample"
    /\ \E l \in BenchLevels \ {light} : light' = l
    /\ UNCHANGED <<progVars, button1_pin, button2_pin, nenv, nadv, bench>>

\* ------------------------------------------------ calls of one function
\* a recording of n events: a note every 100 ms, a silence in between
MelodyOf(n) ==
    [i \in 1..n |-> [time |-> 400 + 50 * i,
                     freq |-> IF i % 2 = 1 THEN NOTES[1 + ((i \div 2) % 12)] ELSE 0,
                     duty |-> IF i % 2 = 1 THEN 32768 ELSE 0]]

\* the answer of GET /melody for the melody m (lines 359-366)
melody_response(m) ==
    [melody |-> SubSeq(m, 1, Min(100, Len(m))),
     total_events |-> Len(m),
     duration_ms |-> IF m # <<>> THEN m[Len(m)].time ELSE 0]

\* GET /melody on a melody of n events
MelodyCall ==
    /\ BenchIdle
    /\ \E n \in {0, 1, 99, 100, 101, MaxMelodyLen} :
          bench' = [fn |-> "melody", done |-> TRUE, n |-> n,
                    out |-> melody_response(MelodyOf(n))]
    /\ UNCHANGED <<progVars, button1_pin, button2_pin, light, nenv, nadv>>

\* read_sensor_calibrated() with the ADC showing raw
ReadCall ==
    /\ BenchIdle
    /\ \E raw \in BenchLevels :
          /\ light' = raw
          /\ bench' = [fn |-> "read_sensor_calibrated", done |-> TRUE, raw |-> raw,
                       num |-> NormNum(Snap, raw), den |-> NormDen(Snap)]
    /\ UNCHANGED <<progVars, button1_pin, button2_pin, nenv, nadv>>

\* light_to_note_index(n / NormGrid, range / 100); a value outside [0, 1]
\* is passed at the default sensitivity only
NoteIndexCall ==
    /\ BenchIdle
    /\ \E n \in -1..(NormGrid + 1), r \in BenchRanges :
          /\ n \in 0..NormGrid \/ r = sensor_range
          /\ bench' = [fn |-> "light_to_note_index", done |-> TRUE,
                       num |-> n, den |-> NormGrid, range |-> r,
                       out |-> light_to_note_index_at(n, NormGrid, r)]
    /\ UNCHANGED <<progVars, button1_pin, button2_pin, light, nenv, nadv>>

\* POST /post_range with {"range": r}, the request handle_set_range of the
\* conductor sends, as handle_request routes it
SetRangeCall ==
    /\ BenchIdle
    /\ \E r \in RangeRequests :
          /\ Commit(handle_request(Snap, [Task("req", now) EXCEPT !.arg = "/post_range"]))
          /\ bench' = [fn |-> "post_range", done |-> TRUE, range |-> r,
                       status |-> last'.status, sensor_range |-> sensor_range]
    /\ UNCHANGED <<button1_pin, button2_pin, light, nenv, nadv>>

\* ------------------------------------------------------- the conductor
\* the URL of the /tone endpoint of the device at ip
tone_url(ip) == <<"http://", ip, "/tone">>

\* a loop that gives up at the first request that fails
post_next_until_failure(b, outcome) ==
    [b EXCEPT !.posts = Append(@, tone_url(PICO_IPS[b.i])),
              !.outcomes = Append(@, outcome),
              !.i = @ + 1,
              !.done = (b.i + 1 > Len(PICO_IPS)) \/ outcome # "ok"]

\* one round of the loop of play_note_on_all_picos (lines 66-75): the POST
\* to the next address ends with outcome, which the loop survives
post_next(b, outcome) ==
    [b EXCEPT !.posts = Append(@, tone_url(PICO_IPS[b.i])),
              !.outcomes = Append(@, outcome),
              !.i = @ + 1,
              !.done = b.i + 1 > Len(PICO_IPS)]

\* play_note_on_all_picos(freq, ms) is called
ConductorCall ==
    /\ BenchIdle
    /\ bench' = [fn |-> "play_note_on_all_picos", done |-> Len(PICO_IPS) = 0,
                 i |-> 1, posts |-> <<>>, outcomes |-> <<>>]
    /\ UNCHANGED <<progVars, button1_pin, button2_pin, light, nenv, nadv>>

ConductorPost ==
    /\ bench.fn = "play_note_on_all_picos" /\ ~bench.done
    /\ \E o \in PostOutcomes : bench' = post_next(bench, o)
    /\ UNCHANGED <<progVars, button1_pin, button2_pin, light, nenv, nadv>>

\* ------------------------------------------------- the bench as a system
\* main.py has been imported (lines 12-38): nothing is calibrated, nothing
\* runs
InitBench ==
    /\ now = 0
    /\ queue = <<>>
    /\ current_mode = LIVE
    /\ is_recording = FALSE
    /\ is_playing_back = FALSE
    /\ recorded_melody = <<>>
    /\ recording_start_time = 0
    /\ buzzer = [freq |-> 0, duty |-> 0]
    /\ writer = ""
    /\ last_note_index = -1
    /\ last_freq = 0
    /\ last_button1_state = 1
    /\ last_button2_state = 1
    /\ ambient_light_floor = 10 * 30000
    /\ ambient_light_ceiling = 10 * 40000
    /\ calibrated = FALSE
    /\ last = [op |-> "import", status |-> "ok", aux |-> ""]
    /\ button1_pin = 1
    /\ button2_pin = 1
    /\ light \in BenchLevels
    /\ nenv = 0
    /\ nadv = 0
    /\ bench = NoBench

NextBench ==
    \/ BenchCalibrate
    \/ CalibCue
    \/ CalibSample
    \/ CalibFinish
    \/ BenchLight
    \/ MelodyCall
    \/ ReadCall
    \/ NoteIndexCall
    \/ SetRangeCall
    \/ ConductorCall
    \/ ConductorPost

SpecBench == InitBench /\ [][NextBench]_vars

\* ------------------------------------------------------------- claims
\* an API tone has started and waits for its duration to pass
ApiSounding ==
    \E i \in 1..Len(queue) :
        queue[i].kind = "tone" /\ queue[i].pc = 1 /\ ~queue[i].cancelled

\* a playback task has started its cue and has not reached its end
PlaybackActive ==
    \E i \in 1..Len(queue) : queue[i].kind = "play" /\ queue[i].pc >= 1

\* the handler of POST /record/start is the step being taken
RecordStartStep == RequestStep /\ Head(queue).arg = "/record/start"

\* C1: is_recording and is_playing_back are never both true.
C1_NeverRecordingAndPlaying == ~(is_recording /\ is_playing_back)

\* C2: POST /record/start while recording or playing back fails and
\* leaves is_recording, is_playing_back, recorded_melody and
\* recording_start_time as they were.
C2_StartWhileBusyChangesNothing ==
    [][(RecordStartStep /\ (is_recording \/ is_playing_back))
         => /\ last'.status # "ok"
            /\ UNCHANGED <<is_recording, is_playing_back, recorded_melody,
                           recording_start_time>>]_vars

\* C3: while an API tone is sounding nobody else has written the buzzer,
\* and while a playback is active nobody else has written the buzzer; so
\* the two are never active together.
C3_OneProducer ==
    /\ ApiSounding => writer = "api"
    /\ PlaybackActive => writer = "play"

\* the time within which the live path is to sound again
ResumeMs == 100

\* an API tone or a playback has just ended
TransientEnded ==
    \/ last.op = "api" /\ last.status \in {"expired", "cancelled"}
    \/ last.op = "play" /\ last.status = "complete"

\* C4: in Live Play, right after an API tone or a playback ended, with no
\* other transient in flight and the light above the threshold, the buzzer
\* sounds the note of the current light level within ResumeMs of polling,
\* the light staying as it is.
C4_LiveResumes ==
    (TransientEnded /\ current_mode = LIVE /\ ~Pending(queue)
       /\ AboveThreshold(Snap, light))
      => RunPollers(Snap, now + ResumeMs, light, button1_pin, button2_pin).buzzer
           = [freq |-> NoteFreq(light_to_note_index(Snap, light)), duty |-> 32768]

\* C5: an iteration of sensor_loop that finds an API tone pending or a
\* playback in progress writes nothing to the buzzer and appends no event.
C5_SensorSuspended ==
    [][(SensorStep /\ (ApiPending(queue) \/ is_playing_back))
         => /\ buzzer' = buzzer
            /\ writer' = writer
            /\ recorded_melody' = recorded_melody
            /\ is_recording' = is_recording]_vars

C5_Witness ==
    /\ last.op = "sensor" /\ last.status = "skip"
    /\ is_recording
    /\ ApiSounding

\* C6: an API tone that replaced a pending one keeps the buzzer at its own
\* frequency and duty for as long as it sounds.
C6_NewToneSounds ==
    \A i \in 1..Len(queue) :
        (queue[i].kind = "tone" /\ queue[i].pc = 1 /\ ~queue[i].cancelled
           /\ queue[i].arg = "supersedes")
          => buzzer = [freq |-> queue[i].freq,
                       duty |-> (queue[i].duty * 65535) \div 100]

\* C7: no API tone sounds while a recording is in progress.
C7_NoToneWhileRecording == ~(is_recording /\ ApiSounding)

\* C8: a recording in progress is never older than MaxRecordMs.
C8_RecordingLimit ==
    is_recording => now - recording_start_time <= MaxRecordMs

\* C9: a recording whose elapsed time has passed MaxRecordMs is eventually
\* stopped, whatever requests, playback or calibration came meanwhile.
C9_AutoStop ==
    (is_recording /\ now - recording_start_time > MaxRecordMs) ~> ~is_recording

\* a recording iteration found the limit passed and stopped the recording
C9_Witness ==
    /\ last.op = "sensor" /\ last.status = "record"
    /\ ~is_recording
    /\ now - recording_start_time > MaxRecordMs

\* C10: right after start_recording() succeeded, through POST /record/start
\* or through Button A, recorded_melody is empty and is_recording is true.
C10_StartClearsMelody ==
    (\/ last.op = "/record/start" /\ last.status = "ok"
     \/ last.op = "button" /\ last.status = "a_start")
      => recorded_melody = <<>> /\ is_recording

\* a start that found the melody of the earlier recording
C10_Witness ==
    /\ last.op = "/record/start" /\ last.status = "ok"
    /\ recorded_melody = <<>>
    /\ is_recording
    /\ nenv = 1

\* the handler of the request on path a is the step being taken
HandlerStep(a) == RequestStep /\ Head(queue).arg = a

\* the number of playback_recording tasks alive in the queue q
PlayTasks(q) == Cardinality({i \in 1..Len(q) : q[i].kind = "play"})

\* C11: POST /record/start in Live Play mode is answered "error" and
\* changes nothing: is_recording stays false, the melody and the start time
\* are kept, the buzzer is not written and no time is spent on a cue.
C11_StartInLivePlayFails ==
    [][(RecordStartStep /\ current_mode = LIVE) =>
          /\ last'.status = "error"
          /\ ~is_recording'
          /\ UNCHANGED <<is_recording, recorded_melody, recording_start_time,
                         buzzer, writer, now, current_mode, is_playing_back>>]_vars

\* a start was refused in Live Play mode while a melody was stored
C11_Witness ==
    /\ last.op = "/record/start" /\ last.status = "error"
    /\ current_mode = LIVE /\ recorded_melody # <<>>

\* C12: POST /record/stop succeeds only while recording, and then leaves
\* the substate Idle (neither recording nor playing back) with the melody
\* unchanged; when not recording it is answered "error" and changes nothing.
C12_StopLeavesIdle ==
    [][HandlerStep("/record/stop") =>
          IF is_recording
          THEN /\ last'.status = "ok"
               /\ ~is_recording' /\ ~is_playing_back'
               /\ recorded_melody' = recorded_melody
          ELSE /\ last'.status = "error"
               /\ UNCHANGED <<is_recording, is_playing_back, recorded_melody,
                              recording_start_time, buzzer, writer, now,
                              current_mode>>]_vars

\* C13: after POST /post_mode with a Live Play token the mode is Live Play
\* and is_recording is false, even if a recording was running; the events
\* recorded so far are kept.
C13_LiveTokenStopsRecording ==
    [][(HandlerStep("/post_mode") /\ Head(queue).tok \in {"l", "L", "Live Play"}) =>
          /\ current_mode' = LIVE
          /\ ~is_recording'
          /\ recorded_melody' = recorded_melody
          /\ last'.status = "ok"]_vars

\* a Live Play token has ended a recording that held an event
C13_Witness ==
    /\ last.op = "/post_mode" /\ last.aux = "stopped"
    /\ current_mode = LIVE /\ ~is_recording /\ recorded_melody # <<>>

\* C14: POST /post_mode with a token that is none of the six accepted
\* values is answered with an error and leaves the mode, is_recording,
\* is_playing_back and the melody unchanged.
C14_UnknownTokenIsAnError ==
    [][(HandlerStep("/post_mode")
          /\ Head(queue).tok \notin {"l", "L", "Live Play", "r", "R", "Record & Play"}) =>
          /\ last'.status # "ok"
          /\ UNCHANGED <<current_mode, is_recording, is_playing_back,
                         recorded_melody>>]_vars

\* C15: a request to start a playback made while recording or playing back
\* is refused: POST /record/play is answered "busy", a press of Button B
\* alone is ignored; no playback task is created and is_recording,
\* is_playing_back and the melody are unchanged.
C15_PlayWhileBusyRefused ==
    [][(is_recording \/ is_playing_back) =>
          /\ HandlerStep("/record/play") =>
                /\ last'.status = "busy"
                /\ PlayTasks(queue') = PlayTasks(queue)
                /\ UNCHANGED <<is_recording, is_playing_back, recorded_melody>>
          /\ (/\ ButtonStep /\ current_mode = RECORD
              /\ button2_pin = 0 /\ last_button2_state = 1
              /\ ~(button1_pin = 0 /\ last_button1_state = 1)) =>
                /\ last'.aux = "b_ignored"
                /\ PlayTasks(queue') = PlayTasks(queue)
                /\ UNCHANGED <<is_recording, is_playing_back, recorded_melody>>]_vars

\* POST /record/play was refused while a playback was sounding its melody
C15_Witness ==
    /\ last.op = "/record/play" /\ last.status = "busy"
    /\ is_playing_back /\ recorded_melody # <<>>

\* C16: a playback_recording task that finds the melody empty writes
\* nothing to the buzzer and changes no state: is_playing_back is not set
\* and the task ends at once.
C16_EmptyPlaybackDoesNothing ==
    [][(PlaybackStep /\ Head(queue).pc = 0 /\ recorded_melody = <<>>) =>
          /\ queue' = Tail(queue)
          /\ last'.status = "nothing"
          /\ UNCHANGED <<buzzer, writer, is_playing_back, is_recording,
                         recorded_melody, recording_start_time, current_mode,
                         now>>]_vars

\* a playback task has ended on an empty melody
C16_Witness ==
    /\ last.op = "play" /\ last.status = "nothing"
    /\ recorded_melody = <<>> /\ ~is_playing_back

\* C17: POST /record/play in the Idle substate with an empty melody is
\* answered differently from a request that starts a playback ("playing").
C17_NothingToPlayReported ==
    [][(HandlerStep("/record/play") /\ ~is_recording /\ ~is_playing_back
          /\ recorded_melody = <<>>) =>
          last'.status # "playing"]_vars

\* a playback task in q waits ms milliseconds, until due, before event k,
\* having played the events before it up to the timestamp last_time
WaitsBefore(q, k, ms, due, last_time) ==
    \E j \in 1..Len(q) :
        /\ q[j].kind = "play" /\ q[j].pc = 3 /\ q[j].idx = k
        /\ q[j].ms = ms /\ q[j].due = due /\ q[j].last_time = last_time

\* the buzzer after the event e has been played on the buzzer b
Sounded(b, e) ==
    IF e.freq > 0 THEN [freq |-> e.freq, duty |-> e.duty] ELSE [b EXCEPT !.duty = 0]

\* C19: a playback walks the melody in recorded order.  Entering the loop it
\* asks for a wait of the first timestamp (measured from 0); resumed before
\* event k, whose wait was timestamp k minus timestamp k-1, it sounds the
\* event's frequency, or silences the buzzer when the frequency is 0, then
\* asks for a wait of exactly the next timestamp minus this one; after the
\* last event it silences the buzzer and ends.  The waits so add up to the
\* last timestamp.
C19_PlaybackTiming ==
    [][(PlaybackStep /\ Head(queue).pc >= 2) =>
          LET t == Head(queue)
              L == IF t.pc = 2 \/ t.live THEN recorded_melody ELSE t.mel
          IN IF t.pc = 2
             THEN IF L = <<>>
                  THEN ~is_playing_back' /\ buzzer'.duty = 0
                  ELSE /\ WaitsBefore(queue', 1, L[1].time, now + L[1].time, 0)
                       /\ buzzer' = buzzer
             ELSE /\ t.idx \in 1..Len(L)
                  /\ t.last_time = (IF t.idx = 1 THEN 0 ELSE L[t.idx - 1].time)
                  /\ t.last_time + t.ms = L[t.idx].time
                  /\ IF t.idx < Len(L)
                     THEN /\ buzzer' = Sounded(buzzer, L[t.idx])
                          /\ WaitsBefore(queue', t.idx + 1,
                                         L[t.idx + 1].time - L[t.idx].time,
                                         now + L[t.idx + 1].time - L[t.idx].time,
                                         L[t.idx].time)
                     ELSE /\ buzzer'.duty = 0
                          /\ ~is_playing_back'
                          /\ PlayTasks(queue') = PlayTasks(queue) - 1]_vars

\* a playback has silenced the buzzer for the second event of three and
\* waits before the third
C19_Witness ==
    /\ is_playing_back /\ writer = "play" /\ buzzer.duty = 0
    /\ Len(recorded_melody) = 3
    /\ WaitsBefore(queue, 3, recorded_melody[3].time - recorded_melody[2].time,
                   now + recorded_melody[3].time - recorded_melody[2].time,
                   recorded_melody[2].time)

\* C20: POST /tone with a payload that cannot be read is answered 400; it
\* creates no tone task and leaves the queue, hence the API tone in flight
\* and its expiry, as well as the buzzer untouched.
C20_BadToneChangesNothing ==
    [][(HandlerStep("/tone") /\ ~Head(queue).ok) =>
          /\ last'.status = "400"
          /\ queue' = Tail(queue)
          /\ UNCHANGED <<buzzer, writer, now>>]_vars

\* a malformed /tone has been refused while an API tone sounds
C20_Witness ==
    /\ last.op = "/tone" /\ last.status = "400"
    /\ ApiSounding /\ writer = "api" /\ buzzer.duty > 0

\* C18: under a fair event loop every playback that has started finishes:
\* is_playing_back becomes false again with the buzzer silent, whatever
\* requests, presses and light changes arrive meanwhile.
C18_PlaybackFinishes ==
    is_playing_back ~> (~is_playing_back /\ buzzer.duty = 0)

\* a playback of the stored melody has run to its end
C18_Witness ==
    /\ last.op = "play" /\ last.status = "complete"
    /\ ~is_playing_back /\ buzzer.duty = 0
    /\ Len(recorded_melody) = 3 /\ nenv = MaxEnv

\* C21: the melody query returns the most recent 100 events of the melody
\* (the last 100 in recorded order when more were recorded), with the
\* number of events and the duration, the time of the last event, which is
\* 0 for an empty melody.
C21_MelodyQueryMostRecent ==
    bench.fn = "melody" =>
        LET m == MelodyOf(bench.n)
            k == Min(100, Len(m))
        IN /\ bench.out.melody = SubSeq(m, Len(m) - k + 1, Len(m))
           /\ bench.out.total_events = Len(m)
           /\ bench.out.duration_ms = (IF m = <<>> THEN 0 ELSE m[Len(m)].time)

\* C22: calibrate_sensor on a run of samples leaves the floor at or below
\* the darkest sample, the ceiling at or above the brightest one and at
\* least 1000 counts above the floor, and sets calibrated.
C22_CalibrationCoversSamples ==
    (bench.fn = "calibrate_sensor" /\ bench.done) =>
        /\ bench.n > 0
        /\ ambient_light_floor <= 10 * bench.lo
        /\ ambient_light_ceiling >= 10 * bench.hi
        /\ ambient_light_ceiling - ambient_light_floor >= 10 * 1000
        /\ calibrated

\* a calibration has ended whose samples lay within 1000 counts of each
\* other, away from both ends of the range
C22_Witness ==
    /\ bench.fn = "calibrate_sensor" /\ bench.done /\ calibrated
    /\ bench.lo = 30000 /\ bench.hi = 30000
    /\ ambient_light_ceiling = ambient_light_floor + 10 * 1000

\* C23: after any calibration the floor and the ceiling both lie within
\* the range 0..65535 of the sensor, with the ceiling at least 1000 above
\* the floor.
C23_BoundsWithinSensorRange ==
    calibrated =>
        /\ ambient_light_floor >= 0 /\ ambient_light_floor <= 10 * 65535
        /\ ambient_light_ceiling >= 0 /\ ambient_light_ceiling <= 10 * 65535
        /\ ambient_light_ceiling - ambient_light_floor >= 10 * 1000

\* C24: calibrate_sensor switches the buzzer on exactly three times before
\* the first sample is taken, not at all while it samples, and exactly once
\* after the last sample, four times in all, and leaves the buzzer silent
\* when it returns.
C24_CalibrationCues ==
    bench.fn = "calibrate_sensor" =>
        /\ bench.pc = "cue" => (bench.on = bench.i /\ bench.n = 0)
        /\ bench.pc = "sample" => bench.on = 3
        /\ bench.pc = "done" => (bench.on = 4 /\ bench.n > 0 /\ buzzer.duty = 0)
        /\ bench.pc # "done" => ~bench.done

\* a calibration has returned after 210 samples
C24_Witness ==
    /\ bench.fn = "calibrate_sensor" /\ bench.pc = "done"
    /\ bench.on = 4 /\ bench.n = 210 /\ buzzer = [freq |-> 523, duty |-> 0]

\* C25: light_to_note_index returns an index in 0..11 and never raises,
\* for every normalized value in [0, 1] and every sensitivity
\* sensor_range / 100 with sensor_range in 0..1000, and at the default
\* sensitivity also outside [0, 1], where a value below 0 gives 0 and a
\* value above 1 gives 11.
C25_NoteIndexInRange ==
    bench.fn = "light_to_note_index" =>
        /\ ~bench.out.raised
        /\ bench.out.index \in 0..(Len(NOTES) - 1)
        /\ bench.num < 0 => bench.out.index = 0
        /\ bench.num > bench.den => bench.out.index = Len(NOTES) - 1

\* C26: whatever the sensitivity, light_to_note_index(0, s) is 0 and
\* light_to_note_index(1, s) is 11.
C26_NoteIndexEndpoints ==
    bench.fn = "light_to_note_index" =>
        /\ bench.num = 0 => (~bench.out.raised /\ bench.out.index = 0)
        /\ bench.num = bench.den =>
              (~bench.out.raised /\ bench.out.index = Len(NOTES) - 1)

\* C27: read_sensor_calibrated returns a normalized value in [0, 1] for
\* every raw reading, with the calibrated bounds or with the fallback
\* bounds 1000 and 50000: 0 at or below the floor, 1 at or above the
\* ceiling, (raw - floor) / (ceiling - floor) in between.
C27_ReadIsClamped ==
    bench.fn = "read_sensor_calibrated" =>
        LET floor == IF calibrated THEN ambient_light_floor ELSE 10 * 1000
            ceiling == IF calibrated THEN ambient_light_ceiling ELSE 10 * 50000
            raw == 10 * bench.raw
        IN /\ bench.den > 0
           /\ bench.num >= 0 /\ bench.num <= bench.den
           /\ raw <= floor => bench.num = 0
           /\ raw >= ceiling => bench.num = bench.den
           /\ (raw > floor /\ raw < ceiling) =>
                 (bench.num = raw - floor /\ bench.den = ceiling - floor)

\* a calibrated read has returned a value strictly between 0 and 1
C27_Witness ==
    /\ bench.fn = "read_sensor_calibrated" /\ calibrated
    /\ bench.num > 0 /\ bench.num < bench.den

\* C28: a set-range request with r in 0..1000 is accepted and sensor_range
\* is r afterwards; one with r outside 0..1000 is answered with an error
\* and leaves sensor_range as it was.
C28_RangeIsSettable ==
    bench.fn = "post_range" =>
        IF bench.range \in 0..1000
        THEN bench.status = "ok" /\ bench.sensor_range = bench.range
        ELSE bench.status # "ok" /\ bench.sensor_range = 100

\* C29: play_note_on_all_picos posts once to the /tone URL of every address
\* of PICO_IPS, in the order of the list; it goes on to the next address
\* after a timeout or a failed request and ends only after the last one.
C29_OnePostPerPico ==
    bench.fn = "play_note_on_all_picos" =>
        /\ bench.i \in 1..(Len(PICO_IPS) + 1)
        /\ bench.posts = [k \in 1..(bench.i - 1) |-> tone_url(PICO_IPS[k])]
        /\ bench.done <=> bench.i = Len(PICO_IPS) + 1

\* all addresses have been posted to although the first request timed out
\* and the second failed
C29_Witness ==
    /\ bench.fn = "play_note_on_all_picos" /\ bench.done
    /\ Len(bench.posts) = Len(PICO_IPS)
    /\ bench.outcomes[1] = "timeout" /\ bench.outcomes[2] = "error"

\* a recording iteration of sensor_loop is the step being taken
RecordingTick ==
    /\ SensorStep
    /\ current_mode = RECORD /\ is_recording
    /\ ~ApiPending(Tail(queue)) /\ ~is_playing_back

\* C30: while recording, a tone is appended only when its frequency differs
\* by more than 10 Hz from the last recorded frequency, and a silence only
\* when the last recorded frequency was not 0; an iteration appends at most
\* one event.  Hence no two consecutive events of the melody have the same
\* frequency, and no two consecutive events are silences.
C30_OnlyChangesRecorded ==
    /\ [](\A k \in 1..(Len(recorded_melody) - 1) :
             recorded_melody[k].freq # recorded_melody[k + 1].freq)
    /\ [][RecordingTick =>
            \/ recorded_melody' = recorded_melody
            \/ /\ Len(recorded_melody') = Len(recorded_melody) + 1
               /\ SubSeq(recorded_melody', 1, Len(recorded_melody)) = recorded_melody
               /\ LET e == recorded_melody'[Len(recorded_melody')]
                  IN /\ e.freq > 0 => Abs(e.freq - last_freq) > 10
                     /\ e.freq = 0 => last_freq > 0
                     /\ recorded_melody # <<>> =>
                           last_freq = recorded_melody[Len(recorded_melody)].freq
                     /\ last_freq' = e.freq]_vars

\* a recording holds a note followed by a silence
C30_Witness ==
    /\ is_recording /\ Len(recorded_melody) >= 2
    /\ recorded_melody[Len(recorded_melody) - 1].freq > 0
    /\ recorded_melody[Len(recorded_melody)].freq = 0
    /\ recording_start_time > 0

\* C31: in every reachable state the timestamps of recorded_melody are
\* non-negative and non-decreasing in the order the events were appended.
C31_TimestampsOrdered ==
    /\ \A k \in 1..Len(recorded_melody) : recorded_melody[k].time >= 0
    /\ \A k \in 1..(Len(recorded_melody) - 1) :
           recorded_melody[k].time <= recorded_melody[k + 1].time

\* a second recording, started after the first was stopped, has appended two
\* events of its own with different timestamps
C31_Witness ==
    /\ is_recording
    /\ recording_start_time > 675
    /\ Len(recorded_melody) >= 2
    /\ recorded_melody[1].time < recorded_melody[2].time

\* the substate Idle with a melody stored
IdleWithMelody == ~is_recording /\ ~is_playing_back /\ recorded_melody # <<>>

\* a poll of the button monitor on which Button B reads 0 after a poll that
\* read 1, Button A showing no falling edge
ButtonBPress ==
    /\ ButtonStep
    /\ button2_pin = 0 /\ last_button2_state = 1
    /\ ~(button1_pin = 0 /\ last_button1_state = 1)

\* C32: from the substate Idle with a non-empty melody a playback is
\* started whatever the mode is, by POST /record/play and by a press of
\* Button B alike: a playback_recording task is created.
C32_PlaybackStartsInAnyMode ==
    [][IdleWithMelody =>
          /\ HandlerStep("/record/play") => PlayTasks(queue') = PlayTasks(queue) + 1
          /\ ButtonBPress => PlayTasks(queue') = PlayTasks(queue) + 1]_vars

\* a poll of the button monitor on which Button A reads 0 after a poll that
\* read 1
ButtonAPress == ButtonStep /\ button1_pin = 0 /\ last_button1_state = 1

\* C33: in Record & Play mode a falling edge of Button A stops the recording
\* when one is running (is_recording cleared, the melody kept, the stop cue
\* sounded) and starts one otherwise (is_recording set, the melody emptied,
\* the start time taken); in any other mode the poll changes no state.
C33_ButtonAToggles ==
    [][ButtonAPress =>
          IF current_mode = RECORD
          THEN IF is_recording
               THEN /\ ~is_recording'
                    /\ last'.status = "a_stop"
                    /\ buzzer' = [freq |-> 400, duty |-> 0]
                    /\ now' = now + 200
                    /\ UNCHANGED <<recorded_melody, recording_start_time>>
               ELSE /\ is_recording'
                    /\ last'.status = "a_start"
                    /\ recorded_melody' = <<>>
                    /\ recording_start_time' = now
                    /\ buzzer' = [freq |-> 800, duty |-> 0]
                    /\ now' = now + 400
          ELSE /\ PlayTasks(queue') = PlayTasks(queue)
               /\ Len(queue') = Len(queue)
               /\ UNCHANGED <<current_mode, is_recording, is_playing_back,
                              recorded_melody, recording_start_time, buzzer,
                              writer, last_note_index, last_freq,
                              last_button1_state, last_button2_state,
                              ambient_light_floor, ambient_light_ceiling,
                              calibrated, now>>]_vars

\* Button A has stopped a recording that holds events
C33_Witness ==
    /\ last.op = "button" /\ last.status = "a_stop"
    /\ ~is_recording /\ recorded_melody # <<>>
    /\ button1_pin = 0 /\ last_button1_state = 0

\* C34: a button command fires only on a poll on which the input reads 0
\* and the poll before it read 1.  Every poll leaves in last_button1_state
\* and last_button2_state the levels the inputs had on that poll, whatever
\* the mode is, and the command of Button A (is_recording toggled) or of
\* Button B (a playback task created) is given only when the input reads 0
\* and the level left by the poll before is 1.
C34_FiresOnFallingEdgeOnly ==
    [][ButtonStep =>
          /\ is_recording' # is_recording =>
                button1_pin = 0 /\ last_button1_state = 1
          /\ PlayTasks(queue') > PlayTasks(queue) =>
                button2_pin = 0 /\ last_button2_state = 1
          /\ last_button1_state' = button1_pin
          /\ last_button2_state' = button2_pin]_vars

\* C35: a calibration asked for by POST /calibrate is not one
\* uninterruptible step: the step in which the async_calibrate task first
\* runs does not end the calibration, and it does not hold the processor
\* for the sampling period, so that the other tasks run between the samples.
C35_CalibrationYields ==
    [][(CalibrateStep /\ Head(queue).pc = 0) =>
          /\ ~(last'.op = "calibrate" /\ last'.status = "done")
          /\ now' - now < CalibDurationMs]_vars

\* C36: in every reachable state a recording is active only in Record &
\* Play mode: is_recording implies current_mode = "Record & Play".
C36_RecordingOnlyInRecordMode == is_recording => current_mode = RECORD

\* a mode request has been handled while a recording with events was
\* running, and the recording runs on in Record & Play mode
C36_Witness ==
    /\ is_recording /\ current_mode = RECORD
    /\ last.op = "/post_mode"
    /\ recorded_melody # <<>>

\* the playback_recording tasks that have set is_playing_back and have not
\* reached their end
Replaying == {i \in 1..Len(queue) : queue[i].kind = "play" /\ queue[i].pc >= 1}

\* C37: at most one playback_recording task replays at a time; with a melody
\* stored and no recording running no second playback task stands in the
\* run queue beside one that was created before; and is_playing_back is
\* true for as long as a playback is replaying.
C37_OnePlaybackAtATime ==
    /\ Cardinality(Replaying) <= 1
    /\ (recorded_melody # <<>> /\ ~is_recording) => PlayTasks(queue) <= 1
    /\ Replaying # {} => is_playing_back

\* C38: whenever the mode is Record & Play, nothing is being recorded or
\* played back, no API tone is pending and the sensor loop has made an
\* iteration in that condition, the buzzer is silent: a live note does not
\* go on sounding after the switch to Record & Play.
C38_IdleIsSilent ==
    (current_mode = RECORD /\ ~is_recording /\ ~is_playing_back
       /\ ~ApiPending(queue)
       /\ last.op = "sensor" /\ last.status = "idle")
      => buzzer.duty = 0

\* C39: the reference frequency of a new recording is 0.  A recording
\* iteration that finds the melody still empty and the light above the
\* threshold, before the time limit, appends the tone of the current light
\* level and sounds it, whatever last_freq was left by the recording
\* before; and the first event of a melody is never a silence.
C39_ReferenceStartsAtZero ==
    [][RecordingTick =>
          /\ (/\ recorded_melody = <<>>
              /\ AboveThreshold(Snap, light)
              /\ now - recording_start_time <= MaxRecordMs) =>
                LET freq == NoteFreq(light_to_note_index(Snap, light))
                IN /\ recorded_melody' =
                         <<[time |-> now - recording_start_time,
                            freq |-> freq, duty |-> 32768]>>
                   /\ buzzer' = [freq |-> freq, duty |-> 32768]
          /\ recorded_melody' # <<>> => recorded_melody'[1].freq > 0]_vars

====
